---- MODULE Spec2Model ----
(***************************************************************************)
(* Model of the asynchronous job pipeline of server/main.py: the job       *)
(* registry `jobs` guarded by `jobs_lock`, the request handlers            *)
(* start_inference / get_job_status / get_job_results (coroutines without  *)
(* an await: they run one at a time on the event loop), the upload         *)
(* handlers upload_video (suspended once, at its await) and                *)
(* upload_skeleton, and one                                                *)
(* run_inference thread per accepted submission.  Runner threads           *)
(* interleave with each other and with the handlers at the granularity of  *)
(* one dictionary assignment; a handler reads the fields of the record it  *)
(* looked up after it has released the lock.                               *)
(***************************************************************************)
EXTENDS Integers, Sequences, FiniteSets, TLC

\* ---------------------------------------------------------------- bounds
\* number of submissions that are accepted (job identifiers 1..MaxJobs)
MaxJobs == 2
\* number of identifiers the upload handlers can hand out
MaxUploads == 1

JobIds == 1..MaxJobs

\* Optional values: None is the empty tuple, a present value a 1-tuple
None == <<>>
Some(x) == <<x>>

\* ---------------------------------------------------- static environment
\* LABEL_MAP as loaded from assets/label_map.json: behavior -> rubric
\* texts; B2 is an entry whose rubric is incomplete
LABEL_MAP ==
  [B1 |-> [labels    |-> ("0" :> "absent" @@ "1" :> "emerging"
                          @@ "2" :> "achieved"),
           labels_es |-> ("0" :> "ausente" @@ "1" :> "emergente"
                          @@ "2" :> "logrado")],
   B2 |-> [labels    |-> ("0" :> "never" @@ "1" :> "sometimes"),
           labels_es |-> ("0" :> "nunca")]]
BEHAVIOR_IDS == DOMAIN LABEL_MAP

\* files under uploads/ (name, extension) with their bytes, as the sequence
\* of their blocks, and under skeletons/ with their JSON text, when the
\* server starts
UPLOADS_DIR ==
  <<"v1", ".mov">> :> <<"a1", "a2">> @@ <<"v1", ".webm">> :> <<"b1">>
SKELETONS_DIR == "s1" :> [complete |-> TRUE, body |-> <<"dataS">>]
VideoExts == <<".mp4", ".mov", ".avi", ".mkv", ".webm">>

\* DIANA_DUMMY_MODE is unset
DUMMY_MODE == FALSE

\* str(uuid.uuid4()) of the upload handlers
UploadIds == {<<"u1", "u2", "u3">>[i] : i \in 1..MaxUploads}

\* file names a client can send to POST /api/videos: stem and suffix
FileNames == {<<"clip", ".MOV">>, <<"notes", ".txt">>, <<"", "">>}

\* bytes a client can send to POST /api/videos: those of uploads/v1.mov,
\* or a longer body that begins with them
FileBodies == {<<"a1", "a2">>, <<"a1", "a2", "c3">>}

\* what upload_skeleton dumps: the request's filename and data with the
\* time of the upload
SkeletonBodies == {"dataU"}

\* requests a client can send to POST /api/infer
InputIds == {"v1", "s1", "zz"} \cup UploadIds
InputTypes == {"video", "skeleton"}
BehaviorArgs == {"B1", "UNKNOWN"}

\* ------------------------------------------------------------------ state
VARIABLES
  jobs,    \* the registry: job id -> record, for the ids created so far
  lock,    \* jobs_lock: 0 when free, else the job whose runner holds it
  pc,      \* position of each job's run_inference thread
  loc,     \* arguments and local variables of each run_inference call
  rng,     \* state of the module-level generator of `random`
  disk,    \* runs/<job_id>/: directory, results.json, metadata.json
  clock,   \* datetime.utcnow()
  q,       \* the request handler running on the event loop
  hist,    \* history: per job, the record's fields after each finished update
  seen,    \* history: per job, the progress of the last status response
  files,   \* the files under uploads/ and under skeletons/
  up,      \* upload_video calls suspended at `await file.read()`
  model_file  \* MODEL_PATH.exists()

\* the stored artifacts, the uploads under way and the model file
env == <<files, up, model_file>>

vars == <<jobs, lock, pc, loc, rng, disk, clock, q, hist, seen, env>>

\* ------------------------------------------------------------- helpers
\* start_inference, "Find input file": the first existing candidate
RECURSIVE FindVideo(_, _)
FindVideo(input_id, i) ==
  IF i > Len(VideoExts) THEN None
  ELSE IF <<input_id, VideoExts[i]>> \in DOMAIN files.uploads
       THEN Some(<<"uploads", input_id, VideoExts[i]>>)
       ELSE FindVideo(input_id, i + 1)

\* variant: the lookup falls back to the other kind's directory
FindInput_anykind(input_id, input_type) ==
  IF FindVideo(input_id, 1) # None /\ input_type = "video"
  THEN FindVideo(input_id, 1)
  ELSE IF input_id \in DOMAIN files.skeletons
       THEN Some(<<"skeletons", input_id, ".json">>)
       ELSE FindVideo(input_id, 1)

FindInput(input_id, input_type) ==
  IF input_type = "video" THEN FindVideo(input_id, 1)
  ELSE IF input_id \in DOMAIN files.skeletons
       THEN Some(<<"skeletons", input_id, ".json">>)
       ELSE None

\* the bytes a write that failed can have left of a content: a prefix of
\* any length, which may be the bytes of another file
Truncated(content) == {SubSeq(content, 1, k) : k \in 0..Len(content)}

\* sha256 of the file's bytes, hexdigest()[:16]
compute_file_hash(file_path) ==
  LET bytes == files.uploads[<<file_path[2], file_path[3]>>]
      sha256 == <<"a1", "a2">> :> "9f2c4e1ab07d5563"
                @@ <<"b1">> :> "b5bb9d8014a0f9b1"
                @@ <<"a1", "a2", "c3">> :> "c3a8650e17b94d2f"
                @@ <<>> :> "e3b0c44298fc1c14"
                @@ <<"a1">> :> "6a1f03c95d7e28b4"
  IN sha256[bytes]

\* sha256 of json.dumps(data, sort_keys=True), hexdigest()[:16]
compute_data_hash(data) ==
  LET sha256 == "dataS" :> "41d0c7e2f98b3a6e" @@ "dataU" :> "7be1209a5cd3486f"
  IN sha256[data]

\* the fingerprints of all contents above, and the behavior ids that reach
\* the generator
Fingerprints ==
  <<"9f2c4e1ab07d5563", "41d0c7e2f98b3a6e", "c3a8650e17b94d2f",
    "7be1209a5cd3486f", "b5bb9d8014a0f9b1", "e3b0c44298fc1c14",
    "6a1f03c95d7e28b4">>
GenBehaviorSeq == <<"B1", "B2", "UNKNOWN">>
IndexOf(seq, x) == CHOOSE i \in DOMAIN seq : seq[i] = x

\* hash(f"{behavior_id}_{input_hash}"): fixed within one process, and
\* different for different strings
PyHash(behavior_id, input_hash) ==
  (IndexOf(GenBehaviorSeq, behavior_id) - 1) * Len(Fingerprints)
    + IndexOf(Fingerprints, input_hash) - 1

\* the module-level generator of `random`: its state is the seed it was
\* last given and the number of draws made since, so that different seeds
\* give different states and a state after a draw is never a seeded state;
\* at import it is seeded from the operating system, with no pair's hash
RandomStart == [seed |-> -1, draws |-> 0]
RandomSeed(h) == [seed |-> h % 40, draws |-> 0]
RandomNext(g) == [g EXCEPT !.draws = @ + 1]
\* the number r of the draw r/40 that has led to state g
Random(g) == (11 * g.seed + 17 * (g.draws - 1)) % 40

\* random.choices([0,1,2], weights=[0.2,0.35,0.45]) on the draw r/40
Choices(r) == IF 100 * r < 20 * 40 THEN 0
              ELSE IF 100 * r < 55 * 40 THEN 1 ELSE 2
\* round(random.uniform(0.65, 0.95), 4) on the draw r/40, in units of
\* 0.0001: 0.65 + 0.30 * r/40 rounded to the nearest unit
Uniform(r) == (2 * (650000 + (300000 * r) \div 40) + 100) \div 200

\* variant: the key is taken one score too high
ScoreKey_shift(pred) == IF pred = 0 THEN "1" ELSE IF pred = 1 THEN "2" ELSE "3"

\* str(pred)
ScoreKey(pred) == IF pred = 0 THEN "0" ELSE IF pred = 1 THEN "1" ELSE "2"

\* labels.get(str(pred), "") through LABEL_MAP.get(behavior_id, {})
RubricText(behavior_id, field, pred) ==
  IF behavior_id \in DOMAIN LABEL_MAP /\ field \in DOMAIN LABEL_MAP[behavior_id]
  THEN LET labels == LABEL_MAP[behavior_id][field]
       IN IF ScoreKey(pred) \in DOMAIN labels THEN labels[ScoreKey(pred)] ELSE ""
  ELSE ""

\* the dictionary generate_dummy_prediction returns
Prediction(behavior_id, pred, conf) ==
  [behavior_id    |-> behavior_id,
   pred           |-> pred,
   confidence     |-> conf,
   rubric_text    |-> RubricText(behavior_id, "labels", pred),
   rubric_text_es |-> RubricText(behavior_id, "labels_es", pred)]

\* variant: the stage list with two checkpoints exchanged
Stages_swapped(behavior_id) ==
  << <<15, "Cargando datos...">>,
     <<55, "Extrayendo caracteristicas...">>,
     <<35, "Preprocesando...">>,
     <<75, "Evaluando " \o behavior_id \o "...">>,
     <<90, "Generando prediccion...">> >>

\* the stages list of run_inference
Stages(behavior_id) ==
  << <<15, "Cargando datos...">>,
     <<35, "Preprocesando...">>,
     <<55, "Extrayendo caracteristicas...">>,
     <<75, "Evaluando " \o behavior_id \o "...">>,
     <<90, "Generando prediccion...">> >>

\* str(e) of the exceptions the steps of run_inference can raise
ReadErrors == {"[Errno 2] No such file or directory", ""}
ParseErrors == {"Expecting value: line 1 column 1 (char 0)"}
MkdirErrors == {"[Errno 13] Permission denied"}
WriteErrors == {"[Errno 28] No space left on device"}

\* json.dump(obj, f) and json.load(f) on a document of the run directory:
\* or of skeletons/: a document whose write was interrupted does not parse
JsonDump(obj) == [complete |-> TRUE, body |-> Some(obj)]
PartialDoc == [complete |-> FALSE, body |-> None]
JsonLoad(doc) == IF doc.complete THEN doc.body ELSE None

\* ------------------------------------------------- records and Init
NoLoc == [input_path |-> None, input_type |-> "", behavior_id |-> "",
          input_id |-> "", input_hash |-> "", i |-> 0, pred |-> 0,
          prediction |-> None, results |-> None, exc |-> None]
NoDisk == [dir |-> FALSE, results |-> None, metadata |-> None]
Idle == [op |-> "idle", pc |-> "idle", job |-> 0, code |-> 0,
         status |-> "", progress |-> 0, message |-> "", error |-> None,
         payload |-> None, begin |-> 0, id |-> ""]

\* the fields a status response is built from
Snapshot(rec) == <<rec.status, rec.progress, rec.message, rec.error>>

Init ==
  /\ jobs = <<>>
  /\ lock = 0
  /\ pc = [j \in JobIds |-> "none"]
  /\ loc = [j \in JobIds |-> NoLoc]
  /\ rng = RandomStart
  /\ disk = [j \in JobIds |-> NoDisk]
  /\ clock = 0
  /\ q = Idle
  /\ hist = [j \in JobIds |-> <<>>]
  /\ seen = [j \in JobIds |-> 0]
  /\ files = [uploads |-> UPLOADS_DIR, skeletons |-> SKELETONS_DIR]
  /\ up = {}
  /\ model_file \in BOOLEAN

\* --------------------------- POST /api/videos and POST /api/skeletons
\* the identifiers that name a stored file or an upload under way
UsedUploadIds ==
  {f[1] : f \in DOMAIN files.uploads} \cup DOMAIN files.skeletons
    \cup {u[1] : u \in up}

\* Path(file.filename).suffix.lower()
Lower(suffix) == IF suffix = ".MOV" THEN ".mov" ELSE suffix
AllowedExtensions == {".mp4", ".mov", ".avi", ".mkv", ".webm"}

\* lines 342-367: validation and uuid4, up to `await file.read()`, where
\* the coroutine is suspended and the event loop is free again
UploadVideoStart(filename) ==
  /\ q.op = "idle"
  /\ IF filename[1] \o filename[2] = ""
     THEN /\ q' = [Idle EXCEPT !.op = "upload_video", !.pc = "done",
                               !.code = 400, !.message = "No filename provided"]
          /\ up' = up
     ELSE IF Lower(filename[2]) \notin AllowedExtensions
     THEN /\ q' = [Idle EXCEPT !.op = "upload_video", !.pc = "done",
                               !.code = 400, !.message = "Invalid file type"]
          /\ up' = up
     ELSE /\ \E video_id \in UploadIds \ UsedUploadIds :
               up' = up \cup {<<video_id, Lower(filename[2])>>}
          /\ q' = q
  /\ UNCHANGED <<jobs, lock, pc, loc, rng, disk, clock, hist, seen,
                 files, model_file>>

\* lines 367-381: the read has returned (or raised); the file is written
\* under its new name and the identifier is answered; a failure answers
\* 500 and, when the file was already opened, leaves behind what was
\* written of it: a prefix of the content, of any length
UploadVideoSave ==
  /\ q.op = "idle"
  /\ \E u \in up :
       /\ up' = up \ {u}
       /\ \/ /\ \E content \in FileBodies :
                  files' = [files EXCEPT !.uploads = (u :> content) @@ @]
             /\ q' = [Idle EXCEPT !.op = "upload_video", !.pc = "done",
                                  !.code = 200, !.id = u[1]]
          \/ /\ \/ files' = files
                \/ \E content \in FileBodies :
                     \E written \in Truncated(content) :
                       files' = [files EXCEPT !.uploads = (u :> written) @@ @]
             /\ \E e \in WriteErrors :
                  q' = [Idle EXCEPT !.op = "upload_video", !.pc = "done",
                                    !.code = 500,
                                    !.message = "Failed to save file: " \o e]
  /\ UNCHANGED <<jobs, lock, pc, loc, rng, disk, clock, hist, seen,
                 model_file>>

upload_video ==
  \/ \E filename \in FileNames : UploadVideoStart(filename)
  \/ UploadVideoSave

\* lines 384-428: the whole handler; a failed dump answers 500 and may
\* leave the opened file behind
upload_skeleton ==
  /\ q.op = "idle"
  /\ \E skeleton_id \in UploadIds \ UsedUploadIds :
       \/ /\ \E data \in SkeletonBodies :
               files' = [files EXCEPT !.skeletons =
                                        (skeleton_id :> JsonDump(data)) @@ @]
          /\ q' = [Idle EXCEPT !.op = "upload_skeleton", !.pc = "done",
                               !.code = 200, !.id = skeleton_id]
       \/ /\ files' \in {files,
                          [files EXCEPT !.skeletons =
                                          (skeleton_id :> PartialDoc) @@ @]}
          /\ \E e \in WriteErrors :
               q' = [Idle EXCEPT !.op = "upload_skeleton", !.pc = "done",
                                 !.code = 500,
                                 !.message = "Failed to save skeleton data: "
                                               \o e]
  /\ UNCHANGED <<jobs, lock, pc, loc, rng, disk, clock, hist, seen,
                 up, model_file>>

\* ------------------------------------------- POST /api/infer (handler)
\* uuid.uuid4(): an identifier no record has yet
FreshJobId == Len(jobs) + 1

NewJob(job_id, input_id, input_type, behavior_id, now) ==
  [job_id |-> job_id, input_id |-> input_id, input_type |-> input_type,
   behavior_id |-> behavior_id, status |-> "pending", progress |-> 0,
   message |-> "En cola...", error |-> None, results |-> None,
   created_at |-> now]

\* the whole handler: validation, record creation under the lock, add_task
start_inference(input_id, input_type, behavior_id) ==
  /\ q.op = "idle"
  /\ LET input_path == FindInput(input_id, input_type)
     IN IF behavior_id \notin BEHAVIOR_IDS
        THEN /\ q' = [Idle EXCEPT !.op = "infer", !.pc = "done",
                                   !.code = 400, !.message = "Invalid behavior_id"]
             /\ UNCHANGED <<jobs, lock, pc, loc, rng, disk, clock, hist, seen, env>>
        ELSE IF input_path = None
        THEN /\ q' = [Idle EXCEPT !.op = "infer", !.pc = "done",
                                   !.code = 404, !.message = "not found"]
             /\ UNCHANGED <<jobs, lock, pc, loc, rng, disk, clock, hist, seen, env>>
        ELSE /\ FreshJobId \in JobIds
             /\ lock = 0
             /\ LET job_id == FreshJobId
                    rec == NewJob(job_id, input_id, input_type, behavior_id, clock)
                IN /\ jobs' = Append(jobs, rec)
                   /\ hist' = [hist EXCEPT ![job_id] = <<Snapshot(rec)>>]
                   /\ loc' = [loc EXCEPT ![job_id] =
                               [NoLoc EXCEPT !.input_path = input_path,
                                             !.input_type = input_type,
                                             !.behavior_id = behavior_id,
                                             !.input_id = input_id]]
                   /\ pc' = [pc EXCEPT ![job_id] = "queued"]
                   /\ q' = [Idle EXCEPT !.op = "infer", !.pc = "done",
                                         !.code = 200, !.job = job_id]
             /\ clock' = clock + 1
             /\ UNCHANGED <<lock, rng, disk, seen, env>>

\* the handler has built its response (or raised): the response is sent
HandlerReturn ==
  /\ q.pc = "done"
  /\ q' = Idle
  /\ seen' = IF q.op = "status" /\ q.code = 200
              THEN [seen EXCEPT ![q.job] = q.progress] ELSE seen
  /\ UNCHANGED <<jobs, lock, pc, loc, rng, disk, clock, hist, env>>

\* ------------------------------------------------ run_inference (thread)
\* variant: the assignment goes to every record of the registry
SetField_all(j, f, v) == [k \in DOMAIN jobs |-> [jobs[k] EXCEPT ![f] = v]]

SetField(j, f, v) == [jobs EXCEPT ![j][f] = v]
Goto(j, l) == [pc EXCEPT ![j] = l]

\* variant: no except clause, the exception ends the thread
Raise_uncaught(j, e) ==
  /\ pc' = Goto(j, "done")
  /\ loc' = [loc EXCEPT ![j].exc = Some(e)]

\* an exception leaves the try block: control moves to the except clause
Raise(j, e) ==
  /\ pc' = Goto(j, "L273")
  /\ loc' = [loc EXCEPT ![j].exc = Some(e)]

\* a `with jobs_lock:` block of the runner ends: the update is finished
FinishUpdate(j) ==
  /\ lock' = 0
  /\ hist' = [hist EXCEPT ![j] = Append(@, Snapshot(jobs'[j]))]

\* variant: the task is started inside the handler, before the response
RunStart_eager(j) ==
  /\ pc[j] = "queued"
  /\ lock = 0
  /\ lock' = j
  /\ jobs' = SetField(j, "status", "processing")
  /\ pc' = Goto(j, "L192")
  /\ UNCHANGED <<loc, rng, disk, clock, q, hist, seen, env>>

\* variant: the first update does not assign status
RunStart_nostatus(j) ==
  /\ pc[j] = "queued"
  /\ ~(q.op = "infer" /\ q.job = j)
  /\ lock = 0
  /\ lock' = j
  /\ jobs' = jobs
  /\ pc' = Goto(j, "L192")
  /\ UNCHANGED <<loc, rng, disk, clock, q, hist, seen, env>>

\* lines 190-191: the task starts once the response of its submission is
\* sent; it takes the lock and assigns status
RunStart(j) ==
  /\ pc[j] = "queued"
  /\ ~(q.op = "infer" /\ q.job = j)
  /\ lock = 0
  /\ lock' = j
  /\ jobs' = SetField(j, "status", "processing")
  /\ pc' = Goto(j, "L192")
  /\ UNCHANGED <<loc, rng, disk, clock, q, hist, seen, env>>

\* line 192
RunStartMessage(j) ==
  /\ pc[j] = "L192"
  /\ jobs' = SetField(j, "message", "Iniciando procesamiento...")
  /\ pc' = Goto(j, "L193")
  /\ UNCHANGED <<lock, loc, rng, disk, clock, q, hist, seen, env>>

\* line 193 and the end of the with block
RunStartProgress(j) ==
  /\ pc[j] = "L193"
  /\ jobs' = SetField(j, "progress", 5)
  /\ pc' = Goto(j, "L196")
  /\ FinishUpdate(j)
  /\ UNCHANGED <<loc, rng, disk, clock, q, seen, env>>

\* lines 196-201: fingerprint of the input; reading or parsing may raise
RunHash(j) ==
  /\ pc[j] = "L196"
  /\ \/ /\ loc[j].input_type # "video"
             => JsonLoad(files.skeletons[loc[j].input_id]) # None
        /\ loc' = [loc EXCEPT ![j].input_hash =
                     IF loc[j].input_type = "video"
                     THEN compute_file_hash(loc[j].input_path[1])
                     ELSE compute_data_hash(
                            JsonLoad(files.skeletons[loc[j].input_id])[1]),
                                ![j].i = 1]
        /\ pc' = Goto(j, "L213")
     \/ \E e \in ReadErrors : Raise(j, e)
     \/ /\ loc[j].input_type # "video"
        /\ \E e \in ParseErrors : Raise(j, e)
  /\ UNCHANGED <<jobs, lock, rng, disk, clock, q, hist, seen, env>>

\* lines 213-214: stage i takes the lock and assigns progress
RunStageProgress(j) ==
  /\ pc[j] = "L213"
  /\ lock = 0
  /\ lock' = j
  /\ jobs' = SetField(j, "progress", Stages(loc[j].behavior_id)[loc[j].i][1])
  /\ pc' = Goto(j, "L215")
  /\ UNCHANGED <<loc, rng, disk, clock, q, hist, seen, env>>

\* variant: the delay is taken inside the with block
RunStageMessage_holds(j) ==
  /\ pc[j] = "L215"
  /\ jobs' = SetField(j, "message", Stages(loc[j].behavior_id)[loc[j].i][2])
  /\ pc' = Goto(j, "L216")
  /\ hist' = [hist EXCEPT ![j] = Append(@, Snapshot(jobs'[j]))]
  /\ UNCHANGED <<lock, loc, rng, disk, clock, q, seen, env>>

\* line 215 and the end of the with block
RunStageMessage(j) ==
  /\ pc[j] = "L215"
  /\ jobs' = SetField(j, "message", Stages(loc[j].behavior_id)[loc[j].i][2])
  /\ pc' = Goto(j, "L216")
  /\ FinishUpdate(j)
  /\ UNCHANGED <<loc, rng, disk, clock, q, seen, env>>

\* line 216: the delay of stage i, then the next stage or the prediction
RunStageSleep(j) ==
  /\ pc[j] = "L216"
  /\ IF loc[j].i < Len(Stages(loc[j].behavior_id))
     THEN /\ loc' = [loc EXCEPT ![j].i = @ + 1]
          /\ pc' = Goto(j, "L213")
     ELSE /\ loc' = loc
          /\ pc' = Goto(j, "L158")
  /\ UNCHANGED <<jobs, lock, rng, disk, clock, q, hist, seen, env>>

\* line 158 (called from 221/223): random.seed on the shared generator
PredictSeed(j) ==
  /\ pc[j] = "L158"
  /\ rng' = RandomSeed(PyHash(loc[j].behavior_id, loc[j].input_hash))
  /\ pc' = Goto(j, "L165")
  /\ UNCHANGED <<jobs, lock, loc, disk, clock, q, hist, seen, env>>

\* line 165: random.choices draws once from the shared generator
PredictChoices(j) ==
  /\ pc[j] = "L165"
  /\ rng' = RandomNext(rng)
  /\ loc' = [loc EXCEPT ![j].pred = Choices(Random(rng'))]
  /\ pc' = Goto(j, "L166")
  /\ UNCHANGED <<jobs, lock, disk, clock, q, hist, seen, env>>

\* lines 151-153
is_model_available == model_file /\ ~DUMMY_MODE

\* line 226
ModelVersion == IF is_model_available THEN "diana-v1.0" ELSE "dummy-v1.0"

\* the payload assembled at lines 228-239
ResultPayload(job_id, l, prediction, model_version, now) ==
  [job_id |-> job_id, input_id |-> l.input_id, input_type |-> l.input_type,
   behavior_id |-> l.behavior_id, prediction |-> prediction,
   metadata |-> [model_version |-> model_version, input_hash |-> l.input_hash,
                 processed_at |-> now]]

\* lines 166-174 and 226-239: random.uniform draws once, the prediction is
\* returned and the result payload is built
PredictUniform(j) ==
  /\ pc[j] = "L166"
  /\ rng' = RandomNext(rng)
  /\ LET prediction == Prediction(loc[j].behavior_id, loc[j].pred,
                                  Uniform(Random(rng')))
     IN loc' = [loc EXCEPT ![j].prediction = Some(prediction),
                           ![j].results =
                              Some(ResultPayload(j, loc[j], prediction,
                                                 ModelVersion, clock))]
  /\ pc' = Goto(j, "L243")
  /\ UNCHANGED <<jobs, lock, disk, clock, q, hist, seen, env>>

\* lines 242-243: run_dir.mkdir(exist_ok=True)
RunMkdir(j) ==
  /\ pc[j] = "L243"
  /\ \/ /\ disk' = [disk EXCEPT ![j].dir = TRUE]
        /\ pc' = Goto(j, "L245")
        /\ loc' = loc
     \/ /\ disk' = disk
        /\ \E e \in MkdirErrors : Raise(j, e)
  /\ UNCHANGED <<jobs, lock, rng, clock, q, hist, seen, env>>

\* lines 245-246: results.json is opened for writing and dumped; open may
\* raise, and a dump that raises leaves the truncated file behind
RunWriteResults(j) ==
  /\ pc[j] = "L245"
  /\ \/ /\ disk' = [disk EXCEPT ![j].results = Some(JsonDump(loc[j].results[1]))]
        /\ pc' = Goto(j, "L262")
        /\ loc' = loc
     \/ /\ disk' = disk
        /\ \E e \in WriteErrors : Raise(j, e)
     \/ /\ disk' = [disk EXCEPT ![j].results = Some(PartialDoc)]
        /\ \E e \in WriteErrors : Raise(j, e)
  /\ UNCHANGED <<jobs, lock, rng, clock, q, hist, seen, env>>

\* the run metadata assembled at lines 249-260
RunMetadata(job_id, l, started_at, now) ==
  [job_id |-> job_id, input_id |-> l.input_id, input_type |-> l.input_type,
   behavior_id |-> l.behavior_id, input_path |-> l.input_path[1],
   input_hash |-> l.input_hash,
   model_version |-> l.results[1].metadata.model_version,
   started_at |-> started_at, completed_at |-> now,
   dummy_mode |-> ~is_model_available]

\* variant: a failed write of metadata.json is ignored and the run goes on
RunWriteMetadata_besteffort(j) ==
  /\ pc[j] = "L262"
  /\ \/ disk' = [disk EXCEPT ![j].metadata =
                    Some(JsonDump(RunMetadata(j, loc[j], jobs[j].created_at, clock)))]
     \/ disk' = disk
     \/ disk' = [disk EXCEPT ![j].metadata = Some(PartialDoc)]
  /\ pc' = Goto(j, "L267")
  /\ UNCHANGED <<jobs, lock, loc, rng, clock, q, hist, seen, env>>

\* lines 249-263: metadata.json, written like results.json
RunWriteMetadata(j) ==
  /\ pc[j] = "L262"
  /\ \/ /\ disk' = [disk EXCEPT ![j].metadata =
                      Some(JsonDump(RunMetadata(j, loc[j], jobs[j].created_at, clock)))]
        /\ pc' = Goto(j, "L267")
        /\ loc' = loc
     \/ /\ disk' = disk
        /\ \E e \in WriteErrors : Raise(j, e)
     \/ /\ disk' = [disk EXCEPT ![j].metadata = Some(PartialDoc)]
        /\ \E e \in WriteErrors : Raise(j, e)
  /\ UNCHANGED <<jobs, lock, rng, clock, q, hist, seen, env>>

\* lines 266-267
RunCompleteStatus(j) ==
  /\ pc[j] = "L267"
  /\ lock = 0
  /\ lock' = j
  /\ jobs' = SetField(j, "status", "completed")
  /\ pc' = Goto(j, "L268")
  /\ UNCHANGED <<loc, rng, disk, clock, q, hist, seen, env>>

\* variant: the completing update leaves progress as it is
RunCompleteProgress_skip(j) ==
  /\ pc[j] = "L268"
  /\ pc' = Goto(j, "L269")
  /\ UNCHANGED <<jobs, lock, loc, rng, disk, clock, q, hist, seen, env>>

\* line 268
RunCompleteProgress(j) ==
  /\ pc[j] = "L268"
  /\ jobs' = SetField(j, "progress", 100)
  /\ pc' = Goto(j, "L269")
  /\ UNCHANGED <<lock, loc, rng, disk, clock, q, hist, seen, env>>

\* line 269
RunCompleteMessage(j) ==
  /\ pc[j] = "L269"
  /\ jobs' = SetField(j, "message", "Analisis completado")
  /\ pc' = Goto(j, "L270")
  /\ UNCHANGED <<lock, loc, rng, disk, clock, q, hist, seen, env>>

\* variant: the completing update does not attach the payload
RunCompleteResults_forget(j) ==
  /\ pc[j] = "L270"
  /\ jobs' = jobs
  /\ pc' = Goto(j, "done")
  /\ FinishUpdate(j)
  /\ UNCHANGED <<loc, rng, disk, clock, q, seen, env>>

\* line 270 and the end of the with block: the thread ends
RunCompleteResults(j) ==
  /\ pc[j] = "L270"
  /\ jobs' = SetField(j, "results", loc[j].results)
  /\ pc' = Goto(j, "done")
  /\ FinishUpdate(j)
  /\ UNCHANGED <<loc, rng, disk, clock, q, seen, env>>

\* lines 272-274: the except clause takes the lock and assigns status
RunFailStatus(j) ==
  /\ pc[j] = "L273"
  /\ lock = 0
  /\ lock' = j
  /\ jobs' = SetField(j, "status", "failed")
  /\ pc' = Goto(j, "L275")
  /\ UNCHANGED <<loc, rng, disk, clock, q, hist, seen, env>>

\* variant: error = str(e) or None
RunFailError_falsy(j) ==
  /\ pc[j] = "L275"
  /\ jobs' = SetField(j, "error", IF loc[j].exc[1] = "" THEN None ELSE loc[j].exc)
  /\ pc' = Goto(j, "L276")
  /\ UNCHANGED <<lock, loc, rng, disk, clock, q, hist, seen, env>>

\* line 275: error = str(e)
RunFailError(j) ==
  /\ pc[j] = "L275"
  /\ jobs' = SetField(j, "error", loc[j].exc)
  /\ pc' = Goto(j, "L276")
  /\ UNCHANGED <<lock, loc, rng, disk, clock, q, hist, seen, env>>

\* line 276 and the end of the with block: the thread ends
RunFailMessage(j) ==
  /\ pc[j] = "L276"
  /\ jobs' = SetField(j, "message", "Error: " \o loc[j].exc[1])
  /\ pc' = Goto(j, "done")
  /\ FinishUpdate(j)
  /\ UNCHANGED <<loc, rng, disk, clock, q, seen, env>>

\* one step of the run_inference thread of job j
run_inference(j) ==
  \/ RunStart(j) \/ RunStartMessage(j) \/ RunStartProgress(j)
  \/ RunHash(j)
  \/ RunStageProgress(j) \/ RunStageMessage(j) \/ RunStageSleep(j)
  \/ PredictSeed(j) \/ PredictChoices(j) \/ PredictUniform(j)
  \/ RunMkdir(j) \/ RunWriteResults(j) \/ RunWriteMetadata(j)
  \/ RunCompleteStatus(j) \/ RunCompleteProgress(j)
  \/ RunCompleteMessage(j) \/ RunCompleteResults(j)
  \/ RunFailStatus(j) \/ RunFailError(j) \/ RunFailMessage(j)

\* ------------------------------------- GET /api/jobs/{job_id} (handler)
\* job identifiers a client can ask about; 0 is never issued
QueryIds == 0..MaxJobs

\* variant: an unknown id is answered like a job that is still queued
StatusLookup_lenient(job_id) ==
  /\ q.op = "idle"
  /\ lock = 0
  /\ q' = IF job_id \in DOMAIN jobs
          THEN [Idle EXCEPT !.op = "status", !.pc = "L504", !.job = job_id,
                            !.begin = Len(hist[job_id])]
          ELSE [Idle EXCEPT !.op = "status", !.pc = "done", !.job = job_id,
                            !.code = 200, !.status = "pending",
                            !.message = "En cola..."]
  /\ UNCHANGED <<jobs, lock, pc, loc, rng, disk, clock, hist, seen, env>>

\* lines 497-501: the lookup under the lock; an unknown id raises 404
StatusLookup(job_id) ==
  /\ q.op = "idle"
  /\ lock = 0
  /\ q' = IF job_id \in DOMAIN jobs
          THEN [Idle EXCEPT !.op = "status", !.pc = "L504", !.job = job_id,
                            !.begin = Len(hist[job_id])]
          ELSE [Idle EXCEPT !.op = "status", !.pc = "done", !.job = job_id,
                            !.code = 404, !.message = "Job not found"]
  /\ UNCHANGED <<jobs, lock, pc, loc, rng, disk, clock, hist, seen, env>>

\* line 504: job["status"], read from the live record
StatusReadStatus ==
  /\ q.op = "status" /\ q.pc = "L504"
  /\ q' = [q EXCEPT !.status = jobs[q.job].status, !.pc = "L505"]
  /\ UNCHANGED <<jobs, lock, pc, loc, rng, disk, clock, hist, seen, env>>

\* line 505
StatusReadProgress ==
  /\ q.op = "status" /\ q.pc = "L505"
  /\ q' = [q EXCEPT !.progress = jobs[q.job].progress, !.pc = "L506"]
  /\ UNCHANGED <<jobs, lock, pc, loc, rng, disk, clock, hist, seen, env>>

\* line 506
StatusReadMessage ==
  /\ q.op = "status" /\ q.pc = "L506"
  /\ q' = [q EXCEPT !.message = jobs[q.job].message, !.pc = "L507"]
  /\ UNCHANGED <<jobs, lock, pc, loc, rng, disk, clock, hist, seen, env>>

\* line 507: the last field; the JobStatus response is complete
StatusReadError ==
  /\ q.op = "status" /\ q.pc = "L507"
  /\ q' = [q EXCEPT !.error = jobs[q.job].error, !.pc = "done", !.code = 200]
  /\ UNCHANGED <<jobs, lock, pc, loc, rng, disk, clock, hist, seen, env>>

\* ----------------------------- GET /api/jobs/{job_id}/results (handler)
\* lines 514-518
ResultsLookup(job_id) ==
  /\ q.op = "idle"
  /\ lock = 0
  /\ q' = IF job_id \in DOMAIN jobs
          THEN [Idle EXCEPT !.op = "results", !.pc = "L520", !.job = job_id]
          ELSE [Idle EXCEPT !.op = "results", !.pc = "done", !.job = job_id,
                            !.code = 404, !.message = "Job not found"]
  /\ UNCHANGED <<jobs, lock, pc, loc, rng, disk, clock, hist, seen, env>>

\* line 520: job["status"] is read and compared; q.status keeps what was read
ResultsReadStatus ==
  /\ q.op = "results" /\ q.pc = "L520"
  /\ q' = IF jobs[q.job].status # "completed"
          THEN [q EXCEPT !.status = jobs[q.job].status, !.pc = "L523"]
          ELSE [q EXCEPT !.status = jobs[q.job].status, !.pc = "L526"]
  /\ UNCHANGED <<jobs, lock, pc, loc, rng, disk, clock, hist, seen, env>>

\* lines 521-524: job["status"] is read again for the detail of the 400
ResultsReadDetail ==
  /\ q.op = "results" /\ q.pc = "L523"
  /\ q' = [q EXCEPT !.pc = "done", !.code = 400,
                    !.message = "Job not completed. Current status: "
                                  \o jobs[q.job].status]
  /\ UNCHANGED <<jobs, lock, pc, loc, rng, disk, clock, hist, seen, env>>

\* lines 526-527 and 536-543: job.get("results"), answered when present
ResultsReadResults ==
  /\ q.op = "results" /\ q.pc = "L526"
  /\ q' = IF jobs[q.job].results # None
          THEN [q EXCEPT !.payload = jobs[q.job].results, !.pc = "done",
                         !.code = 200]
          ELSE [q EXCEPT !.pc = "L529"]
  /\ UNCHANGED <<jobs, lock, pc, loc, rng, disk, clock, hist, seen, env>>

\* the answer of the fallback: the parsed document, or 500 when
\* results.json is missing or does not parse
LoadFromDisk(d) ==
  IF d.results # None /\ JsonLoad(d.results[1]) # None
  THEN [code |-> 200, payload |-> JsonLoad(d.results[1])]
  ELSE [code |-> 500, payload |-> None]

\* lines 528-543: results.json of the run directory; open() and
\* json.load are outside any try, so a read that raises is answered 500
\* by the framework
ResultsLoadDisk ==
  /\ q.op = "results" /\ q.pc = "L529"
  /\ \/ q' = [q EXCEPT !.payload = LoadFromDisk(disk[q.job]).payload,
                       !.code = LoadFromDisk(disk[q.job]).code,
                       !.pc = "done"]
     \/ /\ disk[q.job].results # None
        /\ \E e \in ReadErrors :
             q' = [q EXCEPT !.code = 500, !.pc = "done",
                            !.message = "Internal Server Error"]
  /\ UNCHANGED <<jobs, lock, pc, loc, rng, disk, clock, hist, seen, env>>

get_job_status ==
  \/ \E job_id \in QueryIds : StatusLookup(job_id)
  \/ StatusReadStatus \/ StatusReadProgress
  \/ StatusReadMessage \/ StatusReadError

get_job_results ==
  \/ \E job_id \in QueryIds : ResultsLookup(job_id)
  \/ ResultsReadStatus \/ ResultsReadDetail
  \/ ResultsReadResults \/ ResultsLoadDisk

\* ------------------------------------------------------- specifications
Submit ==
  \E input_id \in InputIds, input_type \in InputTypes,
     behavior_id \in BehaviorArgs :
       start_inference(input_id, input_type, behavior_id)

Runner == \E j \in JobIds : run_inference(j)

Upload == upload_video \/ upload_skeleton

\* the server with clients that upload, submit, poll status and fetch
\* results
Next ==
  \/ Upload
  \/ Submit
  \/ HandlerReturn
  \/ Runner
  \/ get_job_status
  \/ get_job_results

Spec == Init /\ [][Next]_vars

\* clients that only submit: the runner threads among themselves
NextRun == Submit \/ HandlerReturn \/ Runner
SpecRun == Init /\ [][NextRun]_vars

\* the event loop sends every response and every runner thread is scheduled
FairRun ==
  /\ SpecRun
  /\ WF_vars(HandlerReturn)
  /\ \A j \in JobIds : WF_vars(run_inference(j))

\* clients that submit and fetch results
NextResults == Submit \/ HandlerReturn \/ Runner \/ get_job_results
SpecResults == Init /\ [][NextResults]_vars

\* a client that submits one job, polls its status and fetches its results
SubmitFirst == Len(jobs) = 0 /\ Submit
NextPoll ==
  \/ SubmitFirst
  \/ HandlerReturn
  \/ Runner
  \/ get_job_status
  \/ get_job_results
SpecPoll == Init /\ [][NextPoll]_vars

\* a server started without models/model.onnx
InitDummy == Init /\ ~model_file

\* such a server with a client that submits its next job once the previous
\* one has ended, and polls status and fetches results of any id at any time
SubmitNext == (\A j \in DOMAIN jobs : pc[j] = "done") /\ Submit
NextSeq ==
  \/ SubmitNext
  \/ HandlerReturn
  \/ Runner
  \/ get_job_status
  \/ get_job_results
SpecSeq == InitDummy /\ [][NextSeq]_vars

\* a client that uploads artifacts and submits its next job once the
\* previous one has ended
NextUpload == Upload \/ SubmitNext \/ HandlerReturn \/ Runner
SpecUpload == Init /\ [][NextUpload]_vars

\* generate_dummy_prediction alone, called with any behavior id and any
\* fingerprint, whatever the state of the shared generator
GenBehaviors == {GenBehaviorSeq[i] : i \in DOMAIN GenBehaviorSeq}
GenHashes == {Fingerprints[i] : i \in DOMAIN Fingerprints}
InitGen ==
  /\ jobs = <<>>
  /\ lock = 0
  /\ pc = [j \in JobIds |-> IF j = 1 THEN "L158" ELSE "none"]
  /\ \E behavior_id \in GenBehaviors, input_hash \in GenHashes :
       loc = [j \in JobIds |->
                IF j = 1 THEN [NoLoc EXCEPT !.behavior_id = behavior_id,
                                            !.input_hash = input_hash]
                ELSE NoLoc]
  /\ rng \in {RandomNext(RandomSeed(h)) : h \in 0..2} \cup {RandomStart}
  /\ disk = [j \in JobIds |-> NoDisk]
  /\ clock = 0
  /\ q = Idle
  /\ hist = [j \in JobIds |-> <<>>]
  /\ seen = [j \in JobIds |-> 0]
  /\ files = [uploads |-> UPLOADS_DIR, skeletons |-> SKELETONS_DIR]
  /\ up = {}
  /\ model_file \in BOOLEAN
generate_dummy_prediction(j) ==
  PredictSeed(j) \/ PredictChoices(j) \/ PredictUniform(j)
NextGen == \E j \in JobIds : generate_dummy_prediction(j)
SpecGen == InitGen /\ [][NextGen]_vars

\* --------------------------------------------------------------- claims
Terminal == {"completed", "failed"}

\* the steps of the lifecycle pending -> processing -> {completed, failed}
Lifecycle ==
  {<<"pending", "processing">>, <<"processing", "completed">>,
   <<"processing", "failed">>}

\* C1: a record is created in pending, and every change of a record's status
\* is pending -> processing, processing -> completed or processing -> failed;
\* a completed or failed status never changes
C1_StatusLifecycle ==
  [][\A j \in DOMAIN jobs' :
       IF j \in DOMAIN jobs
       THEN \/ jobs'[j].status = jobs[j].status
            \/ <<jobs[j].status, jobs'[j].status>> \in Lifecycle
       ELSE jobs'[j].status = "pending"]_vars

C1_Witness ==
  \E j \in DOMAIN jobs, k \in DOMAIN jobs :
    jobs[j].status = "completed" /\ jobs[k].status = "failed"

\* C2: under fair scheduling every job a submission created eventually has
\* status completed or failed
C2_EventuallyTerminal ==
  \A j \in JobIds :
    (j \in DOMAIN jobs) ~> (j \in DOMAIN jobs /\ jobs[j].status \in Terminal)

C2_Witness ==
  /\ \A j \in JobIds : j \in DOMAIN jobs /\ pc[j] = "done"
  /\ \E j \in JobIds : loc[j].exc # None /\ disk[j].results # None
  /\ \E j \in JobIds : loc[j].exc = None

\* C3: a runner whose step raised ends with status failed and an error that
\* is the failure's description and is not empty
C3_FailureRecorded ==
  \A j \in DOMAIN jobs :
    (pc[j] = "done" /\ loc[j].exc # None) =>
      /\ jobs[j].status = "failed"
      /\ jobs[j].error = loc[j].exc
      /\ jobs[j].error[1] # ""

\* C4: the fields of a status response are the record's fields as they were
\* after one finished update, no older than the last update finished when
\* the query began
C4_ConsistentSnapshot ==
  (q.op = "status" /\ q.pc = "done" /\ q.code = 200) =>
    \E k \in q.begin..Len(hist[q.job]) :
      hist[q.job][k] = <<q.status, q.progress, q.message, q.error>>

\* C5: all calls of the prediction generator for one (behavior, fingerprint)
\* pair return the same prediction, whatever other calls run concurrently
C5_Deterministic ==
  \A j \in DOMAIN jobs, k \in DOMAIN jobs :
    ( /\ loc[j].prediction # None /\ loc[k].prediction # None
      /\ loc[j].behavior_id = loc[k].behavior_id
      /\ loc[j].input_hash = loc[k].input_hash )
    => loc[j].prediction = loc[k].prediction

\* C6: a status response never reports less progress than the previous
\* response for the job, and a response with status completed reports 100
C6_ProgressObserved ==
  (q.op = "status" /\ q.pc = "done" /\ q.code = 200) =>
    /\ q.progress >= seen[q.job]
    /\ (q.status = "completed" => q.progress = 100)

\* C7: while no update of the job's runner is under way, the record holds a
\* result payload exactly when its status is completed
C7_ResultsIffCompleted ==
  \A j \in DOMAIN jobs :
    lock # j => ((jobs[j].results # None) <=> (jobs[j].status = "completed"))

C7_Witness ==
  \E j \in DOMAIN jobs :
    lock = 0 /\ jobs[j].status = "completed" /\ jobs[j].results = loc[j].results
             /\ jobs[j].results # None

\* C8: while no update of the job's runner is under way, the record holds an
\* error description exactly when its status is failed
C8_ErrorIffFailed ==
  \A j \in DOMAIN jobs :
    lock # j => ((jobs[j].error # None) <=> (jobs[j].status = "failed"))

C8_Witness ==
  \E j \in DOMAIN jobs :
    lock = 0 /\ jobs[j].status = "failed" /\ jobs[j].error = Some("")

\* C9: a results query answers 404 exactly for an unknown id, 400 exactly
\* when the status it read is not completed, and for a job it read as
\* completed always 200 with the job's result payload, never an error, also
\* when the completing update is still under way
C9_ResultsQuery ==
  (q.op = "results" /\ q.pc = "done") =>
    /\ q.code \in {200, 400, 404}
    /\ (q.code = 404) <=> (q.job \notin DOMAIN jobs)
    /\ (q.code = 400) <=> (q.status \in {"pending", "processing", "failed"})
    /\ (q.code = 200) <=> (q.status = "completed")
    /\ q.code = 200 =>
         /\ jobs[q.job].status = "completed"
         /\ q.payload # None
         /\ q.payload = loc[q.job].results

\* a request the behavior catalog or the stored artifacts do not admit
InvalidRequest(input_id, input_type, behavior_id) ==
  \/ behavior_id \notin DOMAIN LABEL_MAP
  \/ /\ input_type = "video"
     /\ \A i \in DOMAIN VideoExts :
          <<input_id, VideoExts[i]>> \notin DOMAIN files.uploads
  \/ /\ input_type = "skeleton"
     /\ input_id \notin DOMAIN files.skeletons

\* C10: a submission with an unknown behavior or an unresolved input is
\* answered with an error and creates no record and schedules no runner
C10_RejectedSubmission ==
  [][\A input_id \in InputIds, input_type \in InputTypes,
        behavior_id \in BehaviorArgs :
       ( /\ InvalidRequest(input_id, input_type, behavior_id)
         /\ start_inference(input_id, input_type, behavior_id) )
       => /\ jobs' = jobs
          /\ pc' = pc
          /\ q'.code \in {400, 404}
          /\ q'.job = 0]_vars

C10_Witness ==
  /\ q.op = "infer" /\ q.pc = "done" /\ q.code = 404
  /\ Len(jobs) = 1
  /\ files.skeletons # SKELETONS_DIR

\* C11: when a submission answers with a job identifier the record exists,
\* is pending with progress 0, no error and no results, its runner has not
\* taken a step, and the answer carries no error, whatever became of
\* earlier jobs
C11_ReturnsBeforeRunner ==
  (q.op = "infer" /\ q.pc = "done" /\ q.code = 200) =>
    /\ q.job \in DOMAIN jobs
    /\ q.error = None
    /\ pc[q.job] = "queued"
    /\ jobs[q.job].status = "pending"
    /\ jobs[q.job].progress = 0
    /\ jobs[q.job].error = None
    /\ jobs[q.job].results = None
    /\ Len(hist[q.job]) = 1
    /\ disk[q.job] = NoDisk

C11_Witness ==
  /\ q.op = "infer" /\ q.pc = "done" /\ q.code = 200 /\ q.job = 2
  /\ jobs[1].status = "failed"

\* a status or results query for an id the registry does not hold
UnknownQuery(h) == h.op \in {"status", "results"} /\ h.job \notin DOMAIN jobs

\* C12: a status or results query for an unknown id answers 404 at once, and
\* neither the query nor its answer changes a record, a runner, the lock or
\* a run directory
C12_UnknownJobQuery ==
  [][(q' # q /\ (UnknownQuery(q) \/ UnknownQuery(q'))) =>
       /\ q.op = "idle" => (q'.pc = "done" /\ q'.code = 404)
       /\ jobs' = jobs
       /\ disk' = disk
       /\ pc' = pc
       /\ lock' = lock]_vars

C12_Witness ==
  /\ UnknownQuery(q) /\ q.pc = "done" /\ q.code = 404
  /\ Len(jobs) = 1 /\ disk[1].results # None

\* a document of a run directory that was written to the end
Written(d) == d # None /\ d[1].complete

\* the runner of job j has ended in failed after the run directory was made,
\* that is, on a failure of one of the two document writes
WriteFailed(j) ==
  pc[j] = "done" /\ jobs[j].status = "failed" /\ disk[j].dir

\* C13: a job whose results or metadata write failed ends failed and its run
\* directory holds no results document that loads as a complete result
C13_NoResultsAfterWriteFailure ==
  \A j \in DOMAIN jobs :
    /\ (pc[j] = "done" /\ ~(Written(disk[j].results) /\ Written(disk[j].metadata)))
         => jobs[j].status = "failed"
    /\ WriteFailed(j) => LoadFromDisk(disk[j]).code # 200

\* C14: a completed job has both documents written in its run directory;
\* results.json loads to the payload the runner built for this job (its job
\* id, input id, input kind, behavior id and prediction), and that is the
\* payload attached to the record once the completing update has finished
C14_CompletedAfterPersist ==
  \A j \in DOMAIN jobs :
    jobs[j].status = "completed" =>
      /\ disk[j].dir
      /\ Written(disk[j].results)
      /\ Written(disk[j].metadata)
      /\ loc[j].results # None
      /\ LoadFromDisk(disk[j]) = [code |-> 200, payload |-> loc[j].results]
      /\ LET payload == LoadFromDisk(disk[j]).payload[1]
         IN /\ payload.job_id = j
            /\ payload.input_id = jobs[j].input_id
            /\ payload.input_type = jobs[j].input_type
            /\ payload.behavior_id = jobs[j].behavior_id
            /\ payload.prediction = loc[j].prediction[1]
            /\ payload.metadata.input_hash = loc[j].input_hash
      /\ jobs[j].results \in {None, LoadFromDisk(disk[j]).payload}
      /\ pc[j] = "done" => jobs[j].results # None

C14_Witness ==
  \E j \in DOMAIN jobs :
    /\ jobs[j].status = "completed" /\ pc[j] = "done"
    /\ jobs[j].results = LoadFromDisk(disk[j]).payload
    /\ \E k \in DOMAIN jobs : k # j /\ Written(disk[k].results)

\* the runner positions inside a `with jobs_lock:` block, after its first
\* assignment
InUpdate == {"L192", "L193", "L215", "L268", "L269", "L270", "L275", "L276"}

\* the runner positions at hashing, a stage delay, the prediction and the
\* document writes
OutsideLock == {"L196", "L216", "L158", "L165", "L166", "L243", "L245", "L262"}

\* C15: a runner holds the lock only between the assignments of one update,
\* never while hashing, in a stage delay, predicting or writing documents;
\* so while job j is at such a position another job's progress update and
\* a status query are not kept waiting by j
C15_LockOnlyForUpdates ==
  /\ lock # 0 => pc[lock] \in InUpdate
  /\ \A j \in DOMAIN jobs :
       (pc[j] \in OutsideLock /\ lock \in {0, j}) =>
         /\ \A k \in DOMAIN jobs : pc[k] = "L213" => ENABLED RunStageProgress(k)
         /\ q.op = "idle" => ENABLED StatusLookup(j)

C15_Witness ==
  \E j, k \in DOMAIN jobs :
    /\ j # k
    /\ pc[j] = "L216"
    /\ lock = k /\ pc[k] = "L215"

\* the progress of job j after each finished update, oldest first
ProgressSeq(j) == [i \in 1..Len(hist[j]) |-> hist[j][i][2]]

\* the same without the update of the except clause, which assigns no progress
ProgressWritten(j) ==
  IF hist[j] # <<>> /\ hist[j][Len(hist[j])][1] = "failed"
  THEN SubSeq(ProgressSeq(j), 1, Len(hist[j]) - 1)
  ELSE ProgressSeq(j)

Checkpoints == <<0, 5, 15, 35, 55, 75, 90, 100>>

IsPrefix(s, t) ==
  Len(s) <= Len(t) /\ \A i \in 1..Len(s) : s[i] = t[i]

\* C16: the progress values written for a job are a prefix of 0, 5, 15, 35,
\* 55, 75, 90, 100, and all of it once the job has completed; the input is
\* fingerprinted when exactly 0, 5 have been written, each stage delay is
\* taken after its own checkpoint has been written, and the prediction is
\* generated when exactly 0 .. 90 have been written
C16_ProgressCheckpoints ==
  \A j \in DOMAIN jobs :
    /\ IsPrefix(ProgressWritten(j), Checkpoints)
    /\ (jobs[j].status = "completed" /\ pc[j] = "done")
         => ProgressSeq(j) = Checkpoints
    /\ pc[j] = "L196" => ProgressSeq(j) = <<0, 5>>
    /\ Len(ProgressWritten(j)) >= 3 => loc[j].input_hash # ""
    /\ pc[j] = "L216" =>
         /\ Len(ProgressSeq(j)) = loc[j].i + 2
         /\ ProgressSeq(j)[Len(ProgressSeq(j))] = Checkpoints[loc[j].i + 2]
         /\ jobs[j].progress = Checkpoints[loc[j].i + 2]
    /\ pc[j] \in {"L158", "L165", "L166"} =>
         ProgressSeq(j) = SubSeq(Checkpoints, 1, 7)
    /\ loc[j].prediction # None => Len(ProgressWritten(j)) >= 7

C16_Witness ==
  \E j, k \in DOMAIN jobs :
    /\ jobs[j].status = "completed" /\ pc[j] = "done"
    /\ ProgressSeq(j) = Checkpoints
    /\ jobs[k].status = "failed" /\ pc[k] = "done"
    /\ ProgressWritten(k) = SubSeq(Checkpoints, 1, 7)

\* C17: no step removes a record or changes a record's input id, input
\* kind, behavior id or creation time; a step that changes the record of
\* job j is a step of j's own running runner, in which no other runner and
\* no handler moves; a step of a status or results query changes no record;
\* and a step that adds a record is a submission that adds exactly one
C17_SoleWriter ==
  [][/\ Len(jobs') >= Len(jobs)
     /\ \A j \in DOMAIN jobs :
          /\ jobs'[j].job_id = jobs[j].job_id
          /\ jobs'[j].input_id = jobs[j].input_id
          /\ jobs'[j].input_type = jobs[j].input_type
          /\ jobs'[j].behavior_id = jobs[j].behavior_id
          /\ jobs'[j].created_at = jobs[j].created_at
          /\ jobs'[j] # jobs[j] =>
               /\ pc[j] \notin {"none", "done"}
               /\ pc'[j] # pc[j]
               /\ \A k \in JobIds \ {j} : pc'[k] = pc[k]
               /\ q' = q
     /\ (q' # q /\ {q.op, q'.op} \cap {"status", "results"} # {})
          => jobs' = jobs
     /\ Len(jobs') > Len(jobs) =>
          /\ Len(jobs') = Len(jobs) + 1
          /\ q.op = "idle" /\ q'.op = "infer" /\ q'.job = Len(jobs')
          /\ pc[Len(jobs')] = "none" /\ pc'[Len(jobs')] = "queued"]_vars

C17_Witness ==
  /\ Len(jobs) = 2
  /\ jobs[1].status = "completed"
  /\ jobs[2].status = "processing" /\ jobs[2].progress = 55
  /\ q.op = "status" /\ q.job = 1 /\ q.pc = "done" /\ q.code = 200

\* the progress values of a job that is being processed
StageProgress == {5, 15, 35, 55, 75, 90}

\* C18: outside an update in progress the record equals its last finished
\* update, and after every finished update progress is 100 exactly when the
\* status is completed: 0 when pending, a stage checkpoint when processing,
\* and for failed the checkpoint of the update before
C18_ProgressMatchesStatus ==
  \A j \in DOMAIN jobs :
    /\ lock # j => Snapshot(jobs[j]) = hist[j][Len(hist[j])]
    /\ \A i \in 1..Len(hist[j]) :
         LET status == hist[j][i][1]
             progress == hist[j][i][2]
         IN /\ progress = 100 <=> status = "completed"
            /\ status = "pending" => progress = 0
            /\ status = "processing" => progress \in StageProgress
            /\ status = "failed" =>
                 /\ i > 1
                 /\ progress = hist[j][i - 1][2]
                 /\ progress \in StageProgress

C18_Witness ==
  \E j, k \in DOMAIN jobs :
    /\ pc[j] = "done" /\ jobs[j].status = "failed" /\ jobs[j].progress = 5
    /\ pc[k] = "done" /\ jobs[k].status = "completed" /\ jobs[k].progress = 100

\* the catalog's text for a score of a behavior in one language, if any
CatalogText(behavior_id, field, pred) ==
  LET key == <<"0", "1", "2">>[pred + 1]
  IN IF behavior_id \notin BEHAVIOR_IDS THEN None
     ELSE IF field \notin DOMAIN LABEL_MAP[behavior_id] THEN None
     ELSE IF key \notin DOMAIN LABEL_MAP[behavior_id][field] THEN None
     ELSE Some(LABEL_MAP[behavior_id][field][key])

\* C19: the generator always runs to its return and never raises; what it
\* returns carries the behavior id it was given, a score in {0,1,2} and a
\* confidence in [0.65, 0.95]; each rubric text is the catalog's text for
\* the drawn score when the catalog has one and the empty string when the
\* behavior is not in the catalog or has no text for that score
C19_GeneratorTotal ==
  /\ pc[1] \in {"L158", "L165", "L166", "L243"}
  /\ loc[1].exc = None
  /\ pc[1] # "L243" => ENABLED generate_dummy_prediction(1)
  /\ pc[1] = "L243" <=> loc[1].prediction # None
  /\ loc[1].prediction # None =>
       LET p == loc[1].prediction[1]
           en == CatalogText(loc[1].behavior_id, "labels", p.pred)
           es == CatalogText(loc[1].behavior_id, "labels_es", p.pred)
       IN /\ p.behavior_id = loc[1].behavior_id
          /\ p.pred \in {0, 1, 2}
          /\ p.confidence >= 6500 /\ p.confidence <= 9500
          /\ p.rubric_text = IF en = None THEN "" ELSE en[1]
          /\ p.rubric_text_es = IF es = None THEN "" ELSE es[1]
          /\ loc[1].behavior_id \notin BEHAVIOR_IDS =>
               p.rubric_text = "" /\ p.rubric_text_es = ""

C19_Witness ==
  /\ loc[1].prediction # None
  /\ loc[1].behavior_id = "B2"
  /\ loc[1].prediction[1].pred = 2
  /\ loc[1].prediction[1].rubric_text = ""
  /\ loc[1].prediction[1].rubric_text_es = ""

====
